---- MODULE Spec2Model ----
(***************************************************************************)
(* The log sink server of server.py: a synchronous socketserver.TCPServer  *)
(* whose handler appends the body of every POST to the configured endpoint *)
(* to received_logs.txt and answers 204, and answers 404 on every other    *)
(* path.  Bytes are integers, header values and paths are sequences of     *)
(* one-character strings.                                                  *)
(***************************************************************************)
EXTENDS Integers, Sequences, FiniteSets, TLC

\* ------------------------------------------------------------------ bounds
MaxBody == 1
MaxReqs == 2

\* ------------------------------------------------------- program constants
NL == 10
LetterA == 97
NoResponse == 0
NoContent == 204
NotFound == 404

Byte == {NL, LetterA}
Clients == {"c1", "c2"}

\* ----------------------------------------------------------------- helpers
Min(a, b) == IF a <= b THEN a ELSE b

Take(s, k) == SubSeq(s, 1, k)

Drop(s, k) == SubSeq(s, k + 1, Len(s))

IsPrefix(s, t) == Len(s) <= Len(t) /\ Take(t, Len(s)) = s

SeqsUpTo(S, n) == UNION {[1..k -> S] : k \in 0..n}

\* --------------------------------------------------------- the inputs
endpoint == <<"/", "l", "o", "g", "s">>

Paths ==
  { endpoint,
    endpoint \o <<"/">>,
    endpoint \o <<"?", "x">>,
    <<"/", "o">> }

AbsentHeader == [present |-> FALSE, value |-> <<>>]

HeaderValues ==
  { <<"0">>, <<"1">>, <<"2">>, <<" ", "1">>,
    <<"-", "1">>, <<"-", "2">>, <<"x">>, <<>> }

Headers == {AbsentHeader} \cup {[present |-> TRUE, value |-> v] : v \in HeaderValues}

Bodies == SeqsUpTo(Byte, MaxBody)

Requests == [path : Paths, cl : Headers, body : Bodies]

NoRequest == [path |-> <<>>, cl |-> AbsentHeader, body |-> <<>>]

\* ------------------------------------------------- int(), on a str or on 0
DigitChars == <<"0", "1", "2", "3", "4", "5", "6", "7", "8", "9">>

IsDigit(c) == \E i \in 1..10 : DigitChars[i] = c

DigitValue(c) == (CHOOSE i \in 1..10 : DigitChars[i] = c) - 1

RECURSIVE Strip(_)
Strip(s) ==
  IF s = <<>> THEN s
  ELSE IF s[1] = " " THEN Strip(Drop(s, 1))
  ELSE IF s[Len(s)] = " " THEN Strip(Take(s, Len(s) - 1))
  ELSE s

RECURSIVE DecimalValue(_)
DecimalValue(s) ==
  IF s = <<>> THEN 0
  ELSE 10 * DecimalValue(Take(s, Len(s) - 1)) + DigitValue(s[Len(s)])

\* int(str): surrounding whitespace is stripped, one optional sign, then at
\* least one decimal digit; anything else raises ValueError.  (The inputs of
\* this model hold no underscore, which int() also accepts between digits.)
ParseInt(str) ==
  LET t == Strip(str)
      signed == t # <<>> /\ t[1] \in {"+", "-"}
      digits == IF signed THEN Drop(t, 1) ELSE t
      ok == digits # <<>> /\ \A i \in 1..Len(digits) : IsDigit(digits[i])
  IN  [ ok |-> ok,
        val |-> IF ~ok THEN 0
                ELSE IF signed /\ t[1] = "-" THEN 0 - DecimalValue(digits)
                ELSE DecimalValue(digits) ]

\* int(self.headers.get('Content-Length', 0))
ContentLength_nodefault(h) == ParseInt(h.value)

ContentLength(h) ==
  IF h.present THEN ParseInt(h.value) ELSE [ok |-> TRUE, val |-> 0]

\* ------------------------------------------------- the handler's helpers
\* self.path != endpoint: string equality on the raw request target
PathMatches_startswith(path) == IsPrefix(endpoint, path)

PathMatches(path) == path = endpoint

\* self.rfile.read(length) on a buffered reader at `body` followed by EOF:
\* -1 reads to EOF, n >= 0 reads n bytes or up to EOF.
RfileRead_all(body, n) == body

RfileRead(body, n) == IF n = -1 THEN body ELSE Take(body, Min(n, Len(body)))

\* read(n) returns once n bytes have arrived or the client has shut down its
\* sending side; read(-1) returns only at EOF.
ReadReady(body, n, atEof) == atEof \/ (n >= 0 /\ Len(body) >= n)

\* read(n) with n < -1 raises ValueError at once
ReadRejects(n) == n < -1

\* not data.endswith(b"\n")
NeedsNewline_always(bytes) == TRUE

NeedsNewline_never(bytes) == FALSE

NeedsNewline(bytes) == ~(bytes # <<>> /\ bytes[Len(bytes)] = NL)

\* open(LOG_FILE, 'ab'): the existing content is kept
OpenedContent_wb(file) == <<>>

OpenedContent(file) == file

\* a write on a file opened for appending lands at the end of the file
AppendBytes_prepend(file, bytes) == bytes \o file

AppendBytes(file, bytes) == file \o bytes

\* Outcomes of f.write on the buffered file with `pending` the buffer plus the
\* new bytes: it succeeds with the bytes left in the buffer (k = 0) or written
\* through (k = all), or raises OSError with any k bytes on disk (the bytes
\* flushed before the error, and by the close that leaves the with block).
WriteOutcomes(pending) ==
  {[ok |-> TRUE, k |-> k] : k \in {0, Len(pending)}}
    \cup {[ok |-> FALSE, k |-> k] : k \in 0..Len(pending)}

\* Outcomes of the close that ends the with block: everything buffered is
\* flushed, or OSError is raised with any k of the buffered bytes on disk.
CloseOutcomes(pending) ==
  {[ok |-> TRUE, k |-> Len(pending)]}
    \cup {[ok |-> FALSE, k |-> k] : k \in 0..Len(pending)}

\* a failed open, write or close raises OSError out of do_POST
Raises_swallowed(ok) == FALSE

Raises(ok) == ~ok

\* socketserver.TCPServer is synchronous: the next connection is accepted
\* only when process_request of the current one has returned
CanAccept_threaded(p) == p # "stopped"

CanAccept(p) == p = "listening"

\* _handle_request_noblock: `except Exception` catches ValueError and OSError
Catches_oserror_only(e) == e = "OSError"

Catches(e) == e \in {"ValueError", "OSError"}

\* ------------------------------------------------------------------- state
VARIABLES
  status,            \* each client's connection: idle, pending, handling
  pc,                \* where the server thread is
  req,               \* the request being handled
  eof,               \* the client has shut down its sending side
  length,            \* do_POST's length
  data,              \* do_POST's data
  fileOpen,          \* f is open
  buf,               \* f's write buffer
  log,               \* the content of received_logs.txt
  resp,              \* the status sent for the request being handled
  exc,               \* the exception propagating out of do_POST
  pre,               \* history: the log when the request was accepted
  hist,              \* history: the outcome of every finished request
  expected,          \* history: the records of the bodies read, in order
  ioFault,           \* history: an open, write or close has failed
  lastAppendFailed   \* history: the latest append ended in OSError

vars ==
  << status, pc, req, eof, length, data, fileOpen, buf, log, resp, exc,
     pre, hist, expected, ioFault, lastAppendFailed >>

handlerVars == << req, eof, length, data, resp, exc, pre >>

fileVars == << fileOpen, buf, log >>

ghostVars == << hist, expected, ioFault, lastAppendFailed >>

Handling == {c \in Clients : status[c] = "handling"}

\* What the specification asks to follow a body B in the file: one newline
\* unless B already ends with one.  Used by the history variable `expected`
\* and by the properties, never by the handler.
Terminator(B) == IF B # <<>> /\ B[Len(B)] = NL THEN <<>> ELSE <<NL>>

Init ==
  /\ status = [c \in Clients |-> "idle"]
  /\ pc = "listening"
  /\ req = NoRequest
  /\ eof = FALSE
  /\ length = 0
  /\ data = <<>>
  /\ fileOpen = FALSE
  /\ buf = <<>>
  /\ log = <<>>
  /\ resp = NoResponse
  /\ exc = "none"
  /\ pre = <<>>
  /\ hist = <<>>
  /\ expected = <<>>
  /\ ioFault = FALSE
  /\ lastAppendFailed = FALSE

\* ----------------------------------------------------------------- actions
\* a client connects; the connection waits in the listen queue
Connect(c) ==
  /\ pc # "stopped"
  /\ status[c] = "idle"
  /\ Len(hist) + Cardinality({d \in Clients : status[d] # "idle"}) < MaxReqs
  /\ status' = [status EXCEPT ![c] = "pending"]
  /\ UNCHANGED << pc, handlerVars, fileVars, ghostVars >>

\* serve_forever accepts one connection and parses its request: a POST
Accept(c) ==
  /\ CanAccept(pc)
  /\ status[c] = "pending"
  /\ \E r \in Requests : req' = r
  /\ status' = [status EXCEPT ![c] = "handling"]
  /\ pc' = "do_POST"
  /\ eof' = FALSE
  /\ length' = 0
  /\ data' = <<>>
  /\ resp' = NoResponse
  /\ exc' = "none"
  /\ pre' = log
  /\ UNCHANGED << fileVars, ghostVars >>

\* if self.path != endpoint: send_response(404); end_headers(); return
CheckPath ==
  /\ pc = "do_POST"
  /\ IF PathMatches(req.path)
       THEN pc' = "length" /\ resp' = resp
       ELSE pc' = "done" /\ resp' = NotFound
  /\ UNCHANGED << status, req, eof, length, data, exc, pre, fileVars, ghostVars >>

\* length = int(self.headers.get('Content-Length', 0))
ParseLength ==
  /\ pc = "length"
  /\ LET r == ContentLength(req.cl)
     IN  IF r.ok
           THEN length' = r.val /\ pc' = "read" /\ exc' = exc
           ELSE length' = length /\ pc' = "raised" /\ exc' = "ValueError"
  /\ UNCHANGED << status, req, eof, data, resp, pre, fileVars, ghostVars >>

\* the client shuts down its sending side while the server waits in read
ClientEOF ==
  /\ pc = "read"
  /\ ~eof
  /\ eof' = TRUE
  /\ UNCHANGED << status, pc, req, length, data, resp, exc, pre, fileVars, ghostVars >>

\* data = self.rfile.read(length)
ReadBody ==
  /\ pc = "read"
  /\ IF ReadRejects(length)
       THEN /\ pc' = "raised"
            /\ exc' = "ValueError"
            /\ UNCHANGED << data, expected >>
       ELSE /\ ReadReady(req.body, length, eof)
            /\ data' = RfileRead(req.body, length)
            /\ expected' = expected \o data' \o Terminator(data')
            /\ pc' = "open"
            /\ exc' = exc
  /\ UNCHANGED << status, req, eof, length, resp, pre, fileVars,
                  hist, ioFault, lastAppendFailed >>

\* with open(LOG_FILE, 'ab') as f
OpenFile ==
  /\ pc = "open"
  /\ \E ok \in BOOLEAN :
       IF Raises(ok)
         THEN /\ pc' = "raised"
              /\ exc' = "OSError"
              /\ ioFault' = TRUE
              /\ UNCHANGED << fileOpen, buf, log >>
         ELSE /\ pc' = "write"
              /\ fileOpen' = TRUE
              /\ buf' = <<>>
              /\ log' = OpenedContent(log)
              /\ UNCHANGED << exc, ioFault >>
  /\ UNCHANGED << status, req, eof, length, data, resp, pre,
                  hist, expected, lastAppendFailed >>

\* f.write(bytes), then on to `next`; OSError leaves the with block, which
\* closes f
FileWrite(bytes, next) ==
  \E o \in WriteOutcomes(buf \o bytes) :
    /\ log' = AppendBytes(log, Take(buf \o bytes, o.k))
    /\ IF Raises(o.ok)
         THEN /\ pc' = "raised"
              /\ exc' = "OSError"
              /\ fileOpen' = FALSE
              /\ buf' = <<>>
              /\ ioFault' = TRUE
              /\ lastAppendFailed' = TRUE
         ELSE /\ pc' = next
              /\ buf' = Drop(buf \o bytes, o.k)
              /\ UNCHANGED << exc, fileOpen, ioFault, lastAppendFailed >>

\* f.write(data); if not data.endswith(b"\n"): ...
WriteData ==
  /\ pc = "write"
  /\ FileWrite(data, IF NeedsNewline(data) THEN "newline" ELSE "close")
  /\ UNCHANGED << status, req, eof, length, data, resp, pre, hist, expected >>

\* f.write(b"\n")
WriteNewline ==
  /\ pc = "newline"
  /\ FileWrite(<<NL>>, "close")
  /\ UNCHANGED << status, req, eof, length, data, resp, pre, hist, expected >>

\* the end of the with block: f.close() flushes the buffer
CloseFile ==
  /\ pc = "close"
  /\ \E o \in CloseOutcomes(buf) :
       /\ log' = AppendBytes(log, Take(buf, o.k))
       /\ buf' = <<>>
       /\ fileOpen' = FALSE
       /\ IF Raises(o.ok)
            THEN /\ pc' = "raised"
                 /\ exc' = "OSError"
                 /\ ioFault' = TRUE
                 /\ lastAppendFailed' = TRUE
            ELSE /\ pc' = "respond"
                 /\ lastAppendFailed' = FALSE
                 /\ UNCHANGED << exc, ioFault >>
  /\ UNCHANGED << status, req, eof, length, data, resp, pre, hist, expected >>

\* self.send_response(204); self.end_headers()
Send204 ==
  /\ pc = "respond"
  /\ resp' = NoContent
  /\ pc' = "done"
  /\ UNCHANGED << status, req, eof, length, data, exc, pre, fileVars, ghostVars >>

\* what ends the handling of a request: the connection is shut down and the
\* server thread is back in serve_forever's loop
BackToListening(outcome) ==
  /\ \E c \in Handling : status' = [status EXCEPT ![c] = "idle"]
  /\ pc' = "listening"
  /\ hist' = Append(hist, outcome)
  /\ req' = NoRequest
  /\ eof' = FALSE
  /\ length' = 0
  /\ data' = <<>>
  /\ resp' = NoResponse
  /\ exc' = "none"
  /\ pre' = <<>>
  /\ UNCHANGED << fileVars, expected, ioFault, lastAppendFailed >>

\* do_POST has returned: process_request returns, shutdown_request
Finish ==
  /\ pc = "done"
  /\ BackToListening(resp)

\* do_POST has raised: _handle_request_noblock catches Exception, calls
\* handle_error and shutdown_request; anything else ends serve_forever
HandleError ==
  /\ pc = "raised"
  /\ IF Catches(exc)
       THEN BackToListening(NoResponse)
       ELSE /\ pc' = "stopped"
            /\ UNCHANGED << status, handlerVars, fileVars, ghostVars >>

Next ==
  \/ \E c \in Clients : Connect(c)
  \/ \E c \in Clients : Accept(c)
  \/ CheckPath
  \/ ParseLength
  \/ ClientEOF
  \/ ReadBody
  \/ OpenFile
  \/ WriteData
  \/ WriteNewline
  \/ CloseFile
  \/ Send204
  \/ Finish
  \/ HandleError

Spec == Init /\ [][Next]_vars

\* -------------------------------------------------------------- properties
InRequest == pc \notin {"listening", "stopped"}

\* the handling of the request is over: do_POST has returned or raised
Ended == pc \in {"done", "raised"}

\* data has been read
ToEndpoint == InRequest /\ req.path = endpoint

AfterRead ==
  \/ pc \in {"open", "write", "newline", "close", "respond"}
  \/ pc = "done" /\ ToEndpoint

LengthMatches ==
  ContentLength(req.cl).ok /\ ContentLength(req.cl).val = Len(req.body)

\* the header values of this model that int() and read() accept
AcceptedHeader(h) ==
  ~h.present
    \/ h.value \in {<<"0">>, <<"1">>, <<"2">>, <<" ", "1">>, <<"-", "1">>}

C2_OtherPath404 ==
  (InRequest /\ req.path # endpoint)
    => /\ pc \in {"do_POST", "done"}
       /\ log = pre
       /\ ~fileOpen
       /\ exc = "none"
       /\ pc = "done" => resp = NotFound

C2_Witness ==
  /\ pc = "done"
  /\ req.path = endpoint \o <<"/">>
  /\ resp = NotFound
  /\ req.cl.present
  /\ req.body # <<>>
  /\ pre # <<>>
  /\ log = pre

C6_OneAtATime ==
  /\ Cardinality(Handling) <= 1
  /\ pc = "listening" => Handling = {}
  /\ InRequest =>
       /\ Cardinality(Handling) = 1
       /\ IsPrefix(pre, log)
       /\ IsPrefix(Drop(log, Len(pre)), data \o Terminator(data))

C6_Witness ==
  /\ pc = "newline"
  /\ Len(log) > Len(pre)
  /\ \E c, d \in Clients : status[c] = "handling" /\ status[d] = "pending"

\* C7: every step leaves the log a prefix of the new log.
C7_OnlyGrows == [][IsPrefix(log, log')]_vars

C7_Witness ==
  /\ pc = "listening"
  /\ hist = <<NoContent, NoResponse>>
  /\ log # <<>>

\* C8: the server never stops; when do_POST has returned (404 included) or
\* raised, the next step of the server is back to listening with the log
\* untouched, and a listening server can accept every pending connection.
C8_KeepsServing ==
  /\ [](pc # "stopped")
  /\ [](\A c \in Clients :
          (pc = "listening" /\ status[c] = "pending") => ENABLED Accept(c))
  /\ [][(Ended /\ pc' # pc)
         => (pc' = "listening" /\ log' = log /\ Len(hist') = Len(hist) + 1)]_vars

C8_Witness ==
  /\ pc = "done"
  /\ hist = <<NoResponse>>
  /\ ToEndpoint
  /\ resp = NoContent
  /\ log = pre \o req.body \o Terminator(req.body)

\* C9: in every state in which 204 has been sent, the file is closed, nothing
\* is left in its buffer, the log holds the log before the request followed by
\* the body read and its terminating newline, and nothing was raised.
C9_AppendedBefore204 ==
  resp = NoContent
    => /\ ~fileOpen
       /\ buf = <<>>
       /\ exc = "none"
       /\ log = pre \o data \o Terminator(data)

C9_Witness ==
  /\ resp = NoContent
  /\ data = <<LetterA>>
  /\ ~fileOpen
  /\ log = pre \o <<LetterA, NL>>

====
